---- MODULE Spec2Model ----
(***************************************************************************)
(* Model of packages/slack-bot/main.py: the HTTP entry point slack_bot,    *)
(* the Bolt request handler it delegates to, and the "message" listener    *)
(* handle_message with its two collaborators, knowledge_base.get_answer    *)
(* and the reply capability say.                                           *)
(*                                                                         *)
(* Each HTTP request r has two positions: rpc[r], the position of the      *)
(* invocation of slack_bot, and hpc[r], the position of the run of         *)
(* handle_message the framework started for it.  The App of line 13 is     *)
(* built without process_before_response, so Bolt acknowledges an Events   *)
(* API request at once and runs the listener on its executor; the two      *)
(* positions of one request therefore advance independently after the      *)
(* dispatch.                                                               *)
(*                                                                         *)
(* trace[r] is a history variable: the calls handle_message made and the   *)
(* results it saw on behalf of request r, in order.  saysAtResponse[r] is  *)
(* a history variable too: how many times say had been called for r when   *)
(* slack_bot returned the response for r.                                  *)
(***************************************************************************)
EXTENDS Integers, Sequences, FiniteSets, TLC

\* ---------------------------------------------------------------- bounds
MaxReqs == 2

Reqs == 1..MaxReqs

\* ------------------------------------------------------------ input sets
Absent == "<absent>"

ChannelTypes == {"im", "channel"}

Texts == {"", "q1"}

\* Channel ids of direct-message conversations and of a shared channel.
DMChannels == {"D1", "D2"}

SharedChannels == {"C1"}

ChannelsOf(ct) == IF ct = "im" THEN DMChannels ELSE SharedChannels

Answers == {"a1", "a2"}

\* An event is a dict: a function from the keys it has to their values.
MkEvent(ct, tx, ch) ==
    [k \in {"channel"} \cup (IF ct = Absent THEN {} ELSE {"channel_type"})
                       \cup (IF tx = Absent THEN {} ELSE {"text"})
       |-> CASE k = "channel"      -> ch
             [] k = "channel_type" -> ct
             [] k = "text"         -> tx]

EventsOfType(ct) ==
    { MkEvent(ct, tx, ch) : tx \in Texts \cup {Absent}, ch \in ChannelsOf(ct) }

Events == UNION { EventsOfType(ct) : ct \in ChannelTypes \cup {Absent} }

\* A request the framework rejects or has no listener for never shows its
\* event to this repository; one representative event stands for all.
AnyEvent == MkEvent("im", "q1", "D1")

Requests ==
    { [valid |-> FALSE, type |-> "message", event |-> AnyEvent],
      [valid |-> TRUE, type |-> "reaction_added", event |-> AnyEvent] }
    \cup { [valid |-> TRUE, type |-> "message", event |-> e] : e \in Events }

NoRequest == [valid |-> FALSE, type |-> "none", event |-> [channel |-> "none"]]

NoValue == "<none>"

KeyError == "<KeyError>"

VARIABLES request, rpc, hpc, frameworkResp, httpResp, saysAtResponse,
          text, answer, trace

vars == <<request, rpc, hpc, frameworkResp, httpResp, saysAtResponse,
          text, answer, trace>>

\* ---------------------------------------------------------- history ops
Ev(op, val, chan) == [op |-> op, val |-> val, chan |-> chan]

Log(r, es) == trace' = [trace EXCEPT ![r] = @ \o es]

OpsOf(r, op) == SelectSeq(trace[r], LAMBDA e : e.op = op)

Count(r, op) == Len(OpsOf(r, op))

\* Position of the first entry with this op in trace[r]; 0 when there is none.
PosOf(r, op) ==
    IF \E i \in 1..Len(trace[r]) : trace[r][i].op = op
    THEN CHOOSE i \in 1..Len(trace[r]) :
            /\ trace[r][i].op = op
            /\ \A j \in 1..(i - 1) : trace[r][j].op # op
    ELSE 0

\* ------------------------------------------------------------------ Init
Init ==
    /\ request = [r \in Reqs |-> NoRequest]
    /\ rpc = [r \in Reqs |-> "idle"]
    /\ hpc = [r \in Reqs |-> "none"]
    /\ frameworkResp = [r \in Reqs |-> NoValue]
    /\ httpResp = [r \in Reqs |-> NoValue]
    /\ saysAtResponse = [r \in Reqs |-> 0]
    /\ text = [r \in Reqs |-> NoValue]
    /\ answer = [r \in Reqs |-> NoValue]
    /\ trace = [r \in Reqs |-> << >>]

\* ------------------------------------------------------- slack_bot (29-30)
\* What handler.handle(request) answers for a request that does not reach
\* the listener: signature verification fails, or no listener is registered
\* for the event type (only "message" is, line 16).
Dispatched(req) == req.valid /\ req.type = "message"

RejectResponse(req) == IF req.valid THEN "404" ELSE "401"

\* The hosting runtime invokes slack_bot(request), which calls
\* handler.handle(request).  The framework verifies and parses the request;
\* for a verified "message" event it acknowledges the event and starts
\* handle_message(event, say) on its listener executor.  Requests are
\* numbered in order of arrival.
SlackBotCall(r) ==
    /\ rpc[r] = "idle"
    /\ \A q \in Reqs : q < r => rpc[q] # "idle"
    /\ \E req \in Requests :
          /\ request' = [request EXCEPT ![r] = req]
          /\ IF Dispatched(req)
             THEN /\ frameworkResp' = [frameworkResp EXCEPT ![r] = "200"]
                  /\ hpc' = [hpc EXCEPT ![r] = "start"]
             ELSE /\ frameworkResp' =
                         [frameworkResp EXCEPT ![r] = RejectResponse(req)]
                  /\ UNCHANGED hpc
    /\ rpc' = [rpc EXCEPT ![r] = "handle_returned"]
    /\ UNCHANGED <<httpResp, saysAtResponse, text, answer, trace>>

\* Variant of SlackBotResult: slack_bot answers 200 whatever the framework
\* produced.
SlackBotResultOK(r) == "200"

\* the value of the return statement of line 30
SlackBotResult(r) == frameworkResp[r]

\* return handler.handle(request)
SlackBotReturn(r) ==
    /\ rpc[r] = "handle_returned"
    /\ httpResp' = [httpResp EXCEPT ![r] = SlackBotResult(r)]
    /\ saysAtResponse' = [saysAtResponse EXCEPT ![r] = Count(r, "say")]
    /\ rpc' = [rpc EXCEPT ![r] = "responded"]
    /\ UNCHANGED <<request, hpc, frameworkResp, text, answer, trace>>

\* ------------------------------------------------- handle_message (17-22)
\* Variant of EventGet: event.get(k, "") in place of event[k].
EventGetDefault(ev, k) == IF k \in DOMAIN ev THEN ev[k] ELSE ""

\* event[k] on a dict: the value, or KeyError raised when the key is missing.
EventGet(ev, k) == IF k \in DOMAIN ev THEN ev[k] ELSE KeyError

\* Variant of CheckRaises: the text is read before the channel type is
\* checked.
CheckRaisesEager(ev) ==
    \/ EventGet(ev, "channel_type") = KeyError
    \/ EventGet(ev, "text") = KeyError

\* line 19 raises when event["channel_type"] does.
CheckRaises(ev) == EventGet(ev, "channel_type") = KeyError

\* Variant of IsDirectMessage: public channels are answered too.
IsDirectMessageOrChannel(ev) ==
    EventGet(ev, "channel_type") \in {"im", "channel"}

\* Variant of IsDirectMessage: a text already looked up is not looked up
\* again.
IsDirectMessageDedup(ev) ==
    /\ EventGet(ev, "channel_type") = "im"
    /\ ~\E q \in Reqs : \E i \in 1..Len(trace[q]) :
           /\ trace[q][i].op = "lookup_call"
           /\ trace[q][i].val = EventGet(ev, "text")

\* event["channel_type"] == "im" (line 19)
IsDirectMessage(ev) == EventGet(ev, "channel_type") = "im"

\* line 20 raises when event["text"] does.
ReadTextRaises(ev) == EventGet(ev, "text") = KeyError

\* text = event["text"] (line 20)
ReadText(ev) == EventGet(ev, "text")

\* the argument of knowledge_base.get_answer(text) (line 22)
LookupArg(r) == text[r]

\* Variant of SayContent: the question is echoed.
SayContentEcho(r) == text[r]

\* the argument of say(...): the value get_answer returned (line 22)
SayContent(r) == answer[r]

\* Variant of SayChannel: the capability of the first request is kept.
SayChannelFirst(r) == request[1].event["channel"]

\* say is the capability the framework binds to the channel of the event.
SayChannel(r) == request[r].event["channel"]

\* handle_message(event, say) from its entry to the entry into get_answer:
\* the check of line 19, the read of line 20, the inner call of line 22.
\* These statements touch only the event and the local text.
HandleMessage(r) ==
    /\ hpc[r] = "start"
    /\ LET ev == request[r].event IN
         IF CheckRaises(ev)
         THEN /\ hpc' = [hpc EXCEPT ![r] = "raised"]
              /\ Log(r, <<Ev("handler_raise", "KeyError", NoValue)>>)
              /\ UNCHANGED text
         ELSE IF ~IsDirectMessage(ev)
         THEN /\ hpc' = [hpc EXCEPT ![r] = "returned"]
              /\ Log(r, <<Ev("check", "skipped", NoValue),
                          Ev("handler_return", NoValue, NoValue)>>)
              /\ UNCHANGED text
         ELSE IF ReadTextRaises(ev)
         THEN /\ hpc' = [hpc EXCEPT ![r] = "raised"]
              /\ Log(r, <<Ev("check", "taken", NoValue),
                          Ev("handler_raise", "KeyError", NoValue)>>)
              /\ UNCHANGED text
         ELSE /\ hpc' = [hpc EXCEPT ![r] = "in_lookup"]
              /\ text' = [text EXCEPT ![r] = ReadText(ev)]
              /\ Log(r, <<Ev("check", "taken", NoValue),
                          Ev("lookup_call", LookupArg(r)', NoValue)>>)
    /\ UNCHANGED <<request, rpc, frameworkResp, httpResp, saysAtResponse,
                   answer>>

\* Variant of LookupRaise: the failure is caught and a fallback reply sent.
LookupRaiseFallback(r) ==
    /\ hpc[r] = "in_lookup"
    /\ hpc' = [hpc EXCEPT ![r] = "returned"]
    /\ Log(r, <<Ev("lookup_raise", NoValue, NoValue),
                Ev("say", "sorry", SayChannel(r)),
                Ev("handler_return", NoValue, NoValue)>>)
    /\ UNCHANGED <<request, rpc, frameworkResp, httpResp, saysAtResponse,
                   text, answer>>

\* get_answer raises; nothing in handle_message catches it.
LookupRaise(r) ==
    /\ hpc[r] = "in_lookup"
    /\ hpc' = [hpc EXCEPT ![r] = "raised"]
    /\ Log(r, <<Ev("lookup_raise", NoValue, NoValue),
                Ev("handler_raise", "LookupError", NoValue)>>)
    /\ UNCHANGED <<request, rpc, frameworkResp, httpResp, saysAtResponse,
                   text, answer>>

\* Variant of SayAnswer: the reply is sent twice.
SayAnswerTwice(r) ==
    /\ hpc[r] = "in_lookup"
    /\ \E a \in Answers : answer' = [answer EXCEPT ![r] = a]
    /\ UNCHANGED <<request, rpc, frameworkResp, httpResp, saysAtResponse,
                   text>>
    /\ hpc' = [hpc EXCEPT ![r] = "returned"]
    /\ Log(r, <<Ev("lookup_return", answer'[r], NoValue),
                Ev("say", SayContent(r)', SayChannel(r)),
                Ev("say", SayContent(r)', SayChannel(r)),
                Ev("handler_return", NoValue, NoValue)>>)

\* line 22 from the return of get_answer on: get_answer returns a string
\* (which one is the collaborator's business), say(<that string>) is called
\* and handle_message falls off its end.  What say does with the reply and
\* how it ends is the framework's business; its call is what is recorded.
SayAnswer(r) ==
    /\ hpc[r] = "in_lookup"
    /\ \E a \in Answers : answer' = [answer EXCEPT ![r] = a]
    /\ UNCHANGED <<request, rpc, frameworkResp, httpResp, saysAtResponse,
                   text>>
    /\ hpc' = [hpc EXCEPT ![r] = "returned"]
    /\ Log(r, <<Ev("lookup_return", answer'[r], NoValue),
                Ev("say", SayContent(r)', SayChannel(r)),
                Ev("handler_return", NoValue, NoValue)>>)

\* ------------------------------------------------------------------ Next
Next ==
    \E r \in Reqs :
       \/ SlackBotCall(r)
       \/ SlackBotReturn(r)
       \/ HandleMessage(r)
       \/ LookupRaise(r)
       \/ SayAnswer(r)

Spec == Init /\ [][Next]_vars

TypeOK ==
    /\ request \in [Reqs -> Requests \cup {NoRequest}]
    /\ rpc \in [Reqs -> {"idle", "handle_returned", "responded"}]
    /\ hpc \in [Reqs -> {"none", "start", "in_lookup", "returned",
                          "raised"}]
    /\ frameworkResp \in [Reqs -> {NoValue, "200", "401", "404"}]
    /\ httpResp \in [Reqs -> {NoValue, "200", "401", "404"}]
    /\ text \in [Reqs -> Texts \cup {NoValue}]
    /\ answer \in [Reqs -> Answers \cup {NoValue}]

\* ---------------------------------------------------------- vocabulary
\* The properties below speak of the events themselves, not of the
\* operators handle_message is modelled with.
Arrived(r) == rpc[r] # "idle"

Reached(r) == Arrived(r) /\ request[r].valid /\ request[r].type = "message"

EventOf(r) == request[r].event

HasChannelType(r) == "channel_type" \in DOMAIN EventOf(r)

HasText(r) == "text" \in DOMAIN EventOf(r)

DMEvent(r) ==
    Reached(r) /\ HasChannelType(r) /\ EventOf(r)["channel_type"] = "im"

NonDMEvent(r) ==
    Reached(r) /\ HasChannelType(r) /\ EventOf(r)["channel_type"] # "im"

Finished(r) == hpc[r] \in {"returned", "raised"}

Lookups(r) == OpsOf(r, "lookup_call")

Returns(r) == OpsOf(r, "lookup_return")

Says(r) == OpsOf(r, "say")

\* The number of entries with this op in the traces of the requests of S.
RECURSIVE TotalUpTo(_, _, _)
TotalUpTo(n, S, op) ==
    IF n = 0 THEN 0
    ELSE (IF n \in S THEN Count(n, op) ELSE 0) + TotalUpTo(n - 1, S, op)

Total(S, op) == TotalUpTo(MaxReqs, S, op)

\* ------------------------------------------------------------------ C1
\* C1: for a direct-message event with non-empty text T whose run of
\* handle_message has finished, get_answer was called exactly once, with T;
\* and when get_answer returned a value, say was called exactly once, with
\* that value.
C1_LookupOnceReplyOnce ==
    \A r \in Reqs :
       (DMEvent(r) /\ HasText(r) /\ EventOf(r)["text"] # "" /\ Finished(r))
       => /\ Len(Lookups(r)) = 1
          /\ Lookups(r)[1].val = EventOf(r)["text"]
          /\ Len(Returns(r)) = 1
                => /\ Len(Says(r)) = 1
                   /\ Says(r)[1].val = Returns(r)[1].val

C1_Witness ==
    \E r \in Reqs :
       /\ DMEvent(r) /\ HasText(r) /\ EventOf(r)["text"] = "q1"
       /\ hpc[r] = "returned"
       /\ Len(Says(r)) = 1 /\ Says(r)[1].val = "a2"

\* ------------------------------------------------------------------ C2
\* C2: an event whose channel type is not "im" causes no call of get_answer
\* and no call of say, in any state.
C2_NonDMNoCalls ==
    \A r \in Reqs :
       NonDMEvent(r) => Len(Lookups(r)) = 0 /\ Len(Says(r)) = 0

C2_Witness ==
    \E r \in Reqs :
       /\ NonDMEvent(r) /\ HasText(r) /\ EventOf(r)["text"] = "q1"
       /\ hpc[r] = "returned"
       /\ rpc[r] = "responded"

\* ------------------------------------------------------------------ C3
\* C3: for an event whose channel type is not "im", with or without a text
\* field, handle_message returns normally: once it has run it has returned,
\* and it has raised nothing.
C3_NonDMReturnsNormally ==
    \A r \in Reqs :
       NonDMEvent(r)
       => /\ hpc[r] \in {"start", "returned"}
          /\ Count(r, "handler_raise") = 0
          /\ hpc[r] = "returned" => Count(r, "handler_return") = 1

C3_Witness ==
    \E r \in Reqs :
       /\ NonDMEvent(r) /\ ~HasText(r)
       /\ hpc[r] = "returned"

\* ------------------------------------------------------------------ C4
\* C4: no deduplication.  With S the direct-message events handle_message
\* has handled to its normal end, get_answer has been called for them
\* Cardinality(S) times and say Cardinality(S) times, once each per event,
\* also when two of them carry identical payloads.
Handled == { r \in Reqs : DMEvent(r) /\ hpc[r] = "returned" }

C4_NoDeduplication ==
    /\ Total(Handled, "lookup_call") = Cardinality(Handled)
    /\ Total(Handled, "say") = Cardinality(Handled)
    /\ \A r \in Handled : Count(r, "lookup_call") = 1 /\ Count(r, "say") = 1

C4_Witness ==
    \E r1, r2 \in Handled :
       /\ r1 # r2
       /\ request[r1] = request[r2]
       /\ Total({r1, r2}, "lookup_call") = 2
       /\ Total({r1, r2}, "say") = 2

\* ------------------------------------------------------------------ C5
\* C5: the response slack_bot returns is the one handler.handle produced,
\* and a request the framework did not dispatch to handle_message has
\* caused no call of get_answer or say.
C5_DelegatesEntirely ==
    \A r \in Reqs :
       /\ rpc[r] = "responded" => httpResp[r] = frameworkResp[r]
       /\ (Arrived(r) /\ ~Reached(r)) => trace[r] = << >>
       /\ Len(Lookups(r)) > 0 \/ Len(Says(r)) > 0 => hpc[r] # "none"

C5_Witness ==
    \E r1, r2 \in Reqs :
       /\ rpc[r1] = "responded" /\ ~Reached(r1) /\ httpResp[r1] = "401"
       /\ rpc[r2] = "responded" /\ Reached(r2) /\ httpResp[r2] = "200"
       /\ Len(Says(r2)) = 1

\* ------------------------------------------------------------------ C6
\* C6: within one request the steps keep a fixed order: the channel-type
\* check comes before the call of get_answer, get_answer returns before say
\* is called, and say is called before slack_bot returns the HTTP response,
\* so no reply is sent after the response has been returned.
C6_FixedOrder ==
    \A r \in Reqs :
       /\ Len(Lookups(r)) > 0 =>
             /\ PosOf(r, "check") > 0
             /\ PosOf(r, "check") < PosOf(r, "lookup_call")
       /\ Len(Says(r)) > 0 =>
             /\ PosOf(r, "lookup_return") > 0
             /\ PosOf(r, "lookup_call") < PosOf(r, "lookup_return")
             /\ PosOf(r, "lookup_return") < PosOf(r, "say")
       /\ rpc[r] = "responded" => saysAtResponse[r] = Len(Says(r))

\* ------------------------------------------------------------------ C7
\* C7: when get_answer raises, say is not called for that event, get_answer
\* is not called again, and handle_message ends by raising that failure.
C7_LookupFailurePropagates ==
    \A r \in Reqs :
       Count(r, "lookup_raise") > 0
       => /\ Len(Says(r)) = 0
          /\ Len(Lookups(r)) = 1
          /\ hpc[r] = "raised"
          /\ trace[r][Len(trace[r])] =
                Ev("handler_raise", "LookupError", NoValue)

C7_Witness ==
    \E r \in Reqs :
       /\ DMEvent(r) /\ HasText(r)
       /\ Count(r, "lookup_raise") = 1
       /\ hpc[r] = "raised"
       /\ rpc[r] = "responded"

\* ------------------------------------------------------------------ C8
\* C8: under any interleaving of the requests, every call a request causes
\* uses that request's own data: get_answer gets the text of its event, say
\* is the capability of its event's channel, and the reply is the value
\* get_answer returned for it.
C8_RequestsIndependent ==
    \A r \in Reqs :
       /\ \A i \in 1..Len(Lookups(r)) :
             HasText(r) /\ Lookups(r)[i].val = EventOf(r)["text"]
       /\ \A i \in 1..Len(Says(r)) :
             /\ Says(r)[i].chan = EventOf(r)["channel"]
             /\ Len(Returns(r)) = 1
             /\ Says(r)[i].val = Returns(r)[1].val

\* Request r1 arrived first and is still waiting in get_answer while the
\* later request r2 has already replied, for another text, on another
\* channel.
C8_Witness ==
    \E r1, r2 \in Reqs :
       /\ r1 < r2
       /\ DMEvent(r1) /\ DMEvent(r2) /\ HasText(r1) /\ HasText(r2)
       /\ EventOf(r1)["text"] # EventOf(r2)["text"]
       /\ EventOf(r1)["channel"] # EventOf(r2)["channel"]
       /\ hpc[r1] = "in_lookup" /\ hpc[r2] = "returned"
       /\ Len(Lookups(r1)) = 1
       /\ Len(Says(r2)) = 1

\* ------------------------------------------------------------------ C9
\* C9: for a direct-message event without a text field, handle_message
\* raises while reading the text: get_answer and say are never called for
\* it, and once it has run it has ended by raising KeyError.
C9_MissingTextRaises ==
    \A r \in Reqs :
       (DMEvent(r) /\ ~HasText(r))
       => /\ Len(Lookups(r)) = 0
          /\ Len(Says(r)) = 0
          /\ hpc[r] \in {"start", "raised"}
          /\ hpc[r] = "raised" =>
                trace[r][Len(trace[r])] =
                   Ev("handler_raise", "KeyError", NoValue)

C9_Witness ==
    \E r \in Reqs :
       /\ DMEvent(r) /\ ~HasText(r)
       /\ hpc[r] = "raised"

\* ----------------------------------------------------------------- C10
\* C10: in every state, calls of say <= calls of get_answer <= direct-message
\* events received; an event causes at most one call of each; and every
\* reply is a value get_answer returned earlier for the same event.
C10_CallCounts ==
    /\ Total(Reqs, "say") <= Total(Reqs, "lookup_call")
    /\ Total(Reqs, "lookup_call") <= Cardinality({ r \in Reqs : DMEvent(r) })
    /\ \A r \in Reqs :
          /\ Len(Lookups(r)) <= 1
          /\ Len(Says(r)) <= 1
          /\ \A i \in 1..Len(trace[r]) :
                trace[r][i].op = "say"
                => \E j \in 1..(i - 1) :
                      /\ trace[r][j].op = "lookup_return"
                      /\ trace[r][j].val = trace[r][i].val

C10_Witness ==
    \E r1, r2 \in Reqs :
       /\ DMEvent(r1) /\ hpc[r1] = "returned" /\ Len(Says(r1)) = 1
       /\ DMEvent(r2) /\ hpc[r2] = "raised" /\ Len(Lookups(r2)) = 0
       /\ Total(Reqs, "say") = Total(Reqs, "lookup_call")
       /\ Total(Reqs, "lookup_call") < Cardinality({ r \in Reqs : DMEvent(r) })

====
